---- MODULE Spec2Model ----
(***************************************************************************)
(* Credential lifecycle of the auth service: Login, RefreshToken, Logout,  *)
(* DisableUser and SuspendTenant running as concurrent requests against    *)
(* one relational store.  Every store call (one SQL statement) is one      *)
(* atomic step of the request that issues it; requests interleave between  *)
(* their store calls.  Every store call may fail (driver error).           *)
(***************************************************************************)
EXTENDS Integers, Sequences, FiniteSets, TLC

\* ---------------------------------------------------------------- bounds
NumTokens == 2            \* refresh token values generated in a run of Spec
MaxTime == 2              \* the clock runs 0..MaxTime
MaxAudit == 1             \* audit rows the run may write
RefreshTokenExpiry == 1   \* cfg.RefreshTokenExpiry, in clock ticks
AccessTokenLifeTime == 1  \* cfg.AccessTokenLifeTime, in clock ticks

Procs == {"p1", "p2"}     \* concurrent requests
UserIDs == {"u1", "u2"}
TenantIDs == {"t1", "t2"}
Emails == {"a@x.com", "nobody@x.com"}   \* addresses presented to Login
Actors == {"u2"}          \* the caller of Logout, DisableUser and SuspendTenant
DisableTargets == {"u1"}  \* the users DisableUser is called for
SuspendTargets == {"t1"}  \* the tenants SuspendTenant is called for
Passwords == {"secret", "wrong"}
RaceTokens == NumTokens + 1   \* refresh token values generated in a run of SpecRace
TokenIDs == 1..RaceTokens
BogusToken == 0           \* a refresh token value that was never issued
Nil == -1                 \* a nil *time.Time

\* ---------------------------------------------------------------- errors
ErrInvalidCredentials == "invalid credentials"
ErrUserNotActive == "user is not active"
ErrTenantNotFound == "tenant not found"
ErrTenantNotActive == "tenant is not active"
ErrRefreshTokenNotFound == "refresh token not found"
ErrRefreshTokenRevoked == "refresh token is revoked"
ErrRefreshTokenExpired == "refresh token is expired"
ErrUserNotFound == "user not found"
ErrStorage == "storage error"     \* any error of the database driver
NoErr == ""

\* ------------------------------------------------------------- passwords
\* bcrypt: the stored hash is not the password; comparison re-derives it.
GenerateFromPassword(pw) == <<"$2a$", pw>>

CompareHashAndPassword(hash, pw) == hash = GenerateFromPassword(pw)

\* ---------------------------------------------------------------- rows
NoUser == [id |-> "", tenantID |-> "", email |-> "", passwordHash |-> <<>>, status |-> ""]
NoTenant == [id |-> "", status |-> ""]
NoToken == [token |-> BogusToken, userID |-> "", tenantID |-> "", expiresAt |-> 0, revokedAt |-> Nil, createdAt |-> 0]

\* ------------------------------------------------------------ user store
\* SELECT ... FROM users WHERE email = $1 AND tenant_id = $2
GetUserByEmail(us, email, tenantID) ==
  LET hit == {id \in DOMAIN us : us[id].email = email /\ us[id].tenantID = tenantID}
  IN IF hit = {} THEN NoUser ELSE us[CHOOSE id \in hit : TRUE]

\* SELECT ... FROM users WHERE id = $1
GetUserByID(us, id) == IF id \in DOMAIN us THEN us[id] ELSE NoUser

\* an UPDATE that leaves the status as it was
UpdateUserStatus_Unchanged(us, id, status) == us

\* UPDATE users SET status = $1 WHERE id = $3
UpdateUserStatus(us, id, status) ==
  IF id \in DOMAIN us THEN [us EXCEPT ![id].status = status] ELSE us

\* ---------------------------------------------------------- tenant store
GetTenantByID(ts, id) == IF id \in DOMAIN ts THEN ts[id] ELSE NoTenant

UpdateTenantStatus(ts, id, status) ==
  IF id \in DOMAIN ts THEN [ts EXCEPT ![id].status = status] ELSE ts

\* the rows of user_roles the service starts with
SeedUserRoles ==
  [id \in UserIDs |-> IF id = "u1" THEN <<"operator">> ELSE <<"operator", "super-admin">>]

\* a lookup answered from the rows the service started with
GetRolesByUserID_Seeded(ur, userID) ==
  IF userID \in DOMAIN SeedUserRoles THEN SeedUserRoles[userID] ELSE <<>>

\* ------------------------------------------------------ role/permission
\* SELECT r.* FROM roles r JOIN user_roles ur ... WHERE ur.user_id = $1
GetRolesByUserID(ur, userID) == IF userID \in DOMAIN ur THEN ur[userID] ELSE <<>>

\* SELECT p.* FROM permissions p JOIN role_permissions rp ... WHERE rp.role_id = $1
GetPermissionsByRoleID(rp, roleID) == IF roleID \in DOMAIN rp THEN rp[roleID] ELSE <<>>

\* the loop of Login/RefreshToken: append every code of every role, in order
RECURSIVE AggregatePermissions(_, _)
AggregatePermissions(rp, roleIDs) ==
  IF roleIDs = <<>> THEN <<>>
  ELSE GetPermissionsByRoleID(rp, Head(roleIDs)) \o AggregatePermissions(rp, Tail(roleIDs))

\* --------------------------------------------------- refresh token store
\* INSERT INTO refresh_tokens (token, user_id, tenant_id, expires_at, created_at)
SaveRefreshToken(toks, row) ==
  (row.token :> [row EXCEPT !.revokedAt = Nil]) @@ toks

\* SELECT ... FROM refresh_tokens WHERE token = $1
GetRefreshToken(toks, t) == IF t \in DOMAIN toks THEN toks[t] ELSE NoToken

\* UPDATE refresh_tokens SET revoked_at = $1 WHERE token = $2
RevokeRefreshToken(toks, t, at) ==
  IF t \in DOMAIN toks THEN [toks EXCEPT ![t].revokedAt = at] ELSE toks

\* an UPDATE that carries AND revoked_at IS NULL
RevokeRowsAffected_OnlyUnrevoked(toks, t) ==
  IF t \in DOMAIN toks /\ toks[t].revokedAt = Nil THEN 1 ELSE 0

\* rows the UPDATE of RevokeRefreshToken touches
RevokeRowsAffected(toks, t) == IF t \in DOMAIN toks THEN 1 ELSE 0

\* UPDATE refresh_tokens SET revoked_at = $1 WHERE user_id = $2 AND revoked_at IS NULL
RevokeAllRefreshTokensByUserID(toks, userID, at) ==
  [t \in DOMAIN toks |->
     IF toks[t].userID = userID /\ toks[t].revokedAt = Nil
     THEN [toks[t] EXCEPT !.revokedAt = at] ELSE toks[t]]

\* ------------------------------------------------------------ audit store
\* INSERT INTO audit_logs ...; tenant_id REFERENCES tenants(id)
CreateAuditLog(log, ts, entry, ok) ==
  IF ok /\ entry.tenantID \in DOMAIN ts THEN Append(log, entry) ELSE log

AuditEntry(actor, tenantID, action, target) ==
  [actorID |-> actor, tenantID |-> tenantID, action |-> action, target |-> target]

\* the error CreateAuditLog returns when the row was not inserted
AuditError(log, written) == IF written = log THEN ErrStorage ELSE NoErr

\* a use case that returns the audit error to its caller
DropError_Returned(err) == err

\* the call's result is not assigned: the use case goes on as if it were nil
DropError(err) == NoErr

\* ------------------------------------------------------------ jwt service
JwtSignatureKey == "server-key"     \* cfg.JwtSignatureKey
AplicationName == "Enigma Camp"     \* cfg.AplicationName, the "iss" claim
SigningMethods == {"HS256", "HS384", "HS512"}   \* jwt.SigningMethodHMAC

\* HMAC over header and payload: only the holder of the key can produce it,
\* and it differs as soon as the key, the header or a claim differs.
SignedString(alg, claims, key) == <<"hmac", alg, claims, key>>

\* jwt.MapClaims; "absent" names the claims that are missing from the map or
\* hold a value of another type than the one the verifier asserts
NoClaims == [sub |-> "", tenant_id |-> "", role |-> "", permissions |-> <<>>, is_super_admin |-> FALSE, exp |-> 0, iat |-> 0, iss |-> "",
             absent |-> {}]

NoAccessToken == [alg |-> "", claims |-> NoClaims, sig |-> <<>>]

IsSuperRole(name) == name = "SUPER_ADMIN" \/ name = "super-admin"

\* claims whose super-admin flag asks that every role be the super-admin role
MapClaims_AllRolesSuper(user, roleNames, tenant, permissions, at) ==
  [sub |-> user.id,
   tenant_id |-> tenant.id,
   role |-> IF Len(roleNames) > 0 THEN roleNames[1] ELSE "",
   permissions |-> permissions,
   is_super_admin |-> \A i \in 1..Len(roleNames) : IsSuperRole(roleNames[i]),
   exp |-> at + AccessTokenLifeTime,
   iat |-> at,
   iss |-> AplicationName,
   absent |-> {}]

\* the claims GenerateAccessToken signs
MapClaims(user, roleNames, tenant, permissions, at) ==
  [sub |-> user.id,
   tenant_id |-> tenant.id,
   role |-> IF Len(roleNames) > 0 THEN roleNames[1] ELSE "",
   permissions |-> permissions,
   is_super_admin |-> \E i \in 1..Len(roleNames) : IsSuperRole(roleNames[i]),
   exp |-> at + AccessTokenLifeTime,
   iat |-> at,
   iss |-> AplicationName,
   absent |-> {}]

GenerateAccessToken(user, roleNames, tenant, permissions, at) ==
  LET claims == MapClaims(user, roleNames, tenant, permissions, at)
  IN [alg |-> "HS256", claims |-> claims, sig |-> SignedString("HS256", claims, JwtSignatureKey)]

\* ------------------------------------------------- checks of the use cases
\* variant: a password mismatch is reported under its own message
LoginUserCheck_PasswordLeak(user, password) ==
  IF user = NoUser THEN ErrInvalidCredentials
  ELSE IF user.passwordHash = <<>> THEN ErrInvalidCredentials
  ELSE IF ~CompareHashAndPassword(user.passwordHash, password) THEN "wrong password"
  ELSE IF user.status # "ACTIVE" THEN ErrUserNotActive
  ELSE NoErr

\* a Login that looks at the user's status before the password
LoginUserCheck_StatusFirst(user, password) ==
  IF user = NoUser THEN ErrInvalidCredentials
  ELSE IF user.status # "ACTIVE" THEN ErrUserNotActive
  ELSE IF user.passwordHash = <<>> THEN ErrInvalidCredentials
  ELSE IF ~CompareHashAndPassword(user.passwordHash, password) THEN ErrInvalidCredentials
  ELSE NoErr

\* Login, lines 89-106: the outcome of the checks on the loaded user
LoginUserCheck(user, password) ==
  IF user = NoUser THEN ErrInvalidCredentials
  ELSE IF user.passwordHash = <<>> THEN ErrInvalidCredentials
  ELSE IF ~CompareHashAndPassword(user.passwordHash, password) THEN ErrInvalidCredentials
  ELSE IF user.status # "ACTIVE" THEN ErrUserNotActive
  ELSE NoErr

\* Login, lines 108-117: the outcome of the checks on the loaded tenant
LoginTenantCheck(tenant) ==
  IF tenant = NoTenant THEN ErrTenantNotFound
  ELSE IF tenant.status # "ACTIVE" THEN ErrTenantNotActive
  ELSE NoErr

\* variant: the revocation timestamp is not looked at
RefreshTokenCheck_NoRevocation(rt, at) ==
  IF rt = NoToken THEN ErrRefreshTokenNotFound
  ELSE IF at > rt.expiresAt THEN ErrRefreshTokenExpired
  ELSE NoErr

\* variant: the expiry is not looked at
RefreshTokenCheck_NoExpiry(rt, at) ==
  IF rt = NoToken THEN ErrRefreshTokenNotFound
  ELSE IF rt.revokedAt # Nil THEN ErrRefreshTokenRevoked
  ELSE NoErr

\* RefreshToken, lines 183-196: the outcome of the checks on the loaded token
RefreshTokenCheck(rt, at) ==
  IF rt = NoToken THEN ErrRefreshTokenNotFound
  ELSE IF rt.revokedAt # Nil THEN ErrRefreshTokenRevoked
  ELSE IF at > rt.expiresAt THEN ErrRefreshTokenExpired
  ELSE NoErr

\* variant: the configured lifetime is not added to the expiry
NewRefreshTokenRow_NoLifetime(token, userID, tenantID, at) ==
  [token |-> token, userID |-> userID, tenantID |-> tenantID,
   expiresAt |-> at, revokedAt |-> Nil, createdAt |-> at]

\* the row Login and RefreshToken build for the new refresh token
NewRefreshTokenRow(token, userID, tenantID, at) ==
  [token |-> token, userID |-> userID, tenantID |-> tenantID,
   expiresAt |-> at + RefreshTokenExpiry, revokedAt |-> Nil, createdAt |-> at]

\* handler: every use-case error is answered 401 with err.Error() as body
NoResp == [status |-> 0, error |-> NoErr, accessToken |-> NoAccessToken, refreshToken |-> BogusToken, expiresIn |-> 0]

RespondError(err) == [NoResp EXCEPT !.status = 401, !.error = err]

RespondOK(accessToken, refreshToken) ==
  [status |-> 200, error |-> NoErr, accessToken |-> accessToken,
   refreshToken |-> refreshToken, expiresIn |-> AccessTokenLifeTime]

\* ------------------------------------------------------------------ state
VARIABLES
  users,            \* table users: id -> row
  tenants,          \* table tenants: id -> row
  roles,            \* table roles: id -> name
  userRoles,        \* table user_roles: user id -> role ids, in query order
  rolePermissions,  \* tables role_permissions/permissions: role id -> codes
  refreshTokens,    \* table refresh_tokens: token -> row
  auditLogs,        \* table audit_logs, in insertion order
  now,              \* time.Now()
  minted,           \* number of refresh token values generated so far
  call,             \* per request: operation, position and local variables
  successors,       \* history: token -> new tokens returned by RefreshToken(token)
  disabled,         \* history: users for whom DisableUser has returned nil
  kept              \* the access tokens the callers hold

vars == <<users, tenants, roles, userRoles, rolePermissions, refreshTokens,
          auditLogs, now, minted, call, successors, disabled, kept>>

store == <<users, tenants, roles, userRoles, rolePermissions, refreshTokens, auditLogs>>

\* the Authorization header of a request
NoHeader == [present |-> FALSE, token |-> NoAccessToken]

Bearer(token) == [present |-> TRUE, token |-> token]

NoReq == [email |-> "", password |-> "", tenantID |-> "", refreshToken |-> BogusToken, id |-> "", actorID |-> "",
          authorization |-> NoHeader, required |-> {}, roleIDs |-> <<>>]

\* entity.AccessTokenClaims, all fields at their zero value
NoAccessTokenClaims ==
  [Sub |-> "", TenantID |-> "", Role |-> "", Roles |-> <<>>, Permissions |-> <<>>,
   IsSuperAdmin |-> FALSE, ExpiresAt |-> 0, IssuedAt |-> 0, Issuer |-> ""]

\* what the Gate leaves in the gin context, and whether it called ctx.Next()
NoCtx == [user |-> NoAccessTokenClaims, tenant_id |-> "", next |-> FALSE]

Idle ==
  [op |-> "none", pc |-> "idle", req |-> NoReq,
   rt |-> NoToken, user |-> NoUser, tenant |-> NoTenant,
   roles |-> <<>>, permissions |-> <<>>,
   accessToken |-> NoAccessToken, newRefreshToken |-> BogusToken,
   resp |-> NoResp,
   ctx |-> NoCtx,
   forged |-> FALSE,         \* history: the presented access token was altered after issuance
   from |-> "",              \* history: the step the request returned from
   fault |-> FALSE,          \* history: a store call of this request failed
   credCase |-> "",          \* history: what the users table held for the credentials
   validAtRead |-> FALSE,    \* history: the stored token was unrevoked and unexpired at the read
   late |-> FALSE,           \* history: the token had been rotated before the read
   afterDisable |-> FALSE,   \* history: the owner had been disabled before the read
   again |-> FALSE,          \* history: the token was already revoked when Logout was called
   audited |-> FALSE]        \* history: UpdateUser's audit entry was written before the reload

Init ==
  /\ users = [id \in UserIDs |->
       [id |-> id,
        tenantID |-> IF id = "u1" THEN "t1" ELSE "t2",
        email |-> IF id = "u1" THEN "a@x.com" ELSE "b@x.com",
        passwordHash |-> GenerateFromPassword("secret"),
        status |-> "ACTIVE"]]
  /\ tenants = [id \in TenantIDs |-> [id |-> id, status |-> "ACTIVE"]]
  /\ roles = [r \in {"super-admin", "operator"} |->
                IF r = "super-admin" THEN "SUPER_ADMIN" ELSE "OPERATOR"]
  /\ userRoles = SeedUserRoles
  /\ rolePermissions = [r \in {"super-admin", "operator"} |->
                          IF r = "operator" THEN <<"report.read">>
                          ELSE <<"report.read", "report.export">>]
  /\ refreshTokens = <<>>
  /\ auditLogs = <<>>
  /\ now = 0
  /\ minted = 0
  /\ call = [p \in Procs |-> Idle]
  /\ successors = [t \in TokenIDs |-> {}]
  /\ disabled = {}
  /\ kept = {}

\* ---------------------------------------------------------------- helpers
\* A finished request hands over its response before any other step is taken
\* (returning is local to the request and commutes with every other step).
NoneDone == \A q \in Procs : call[q].pc # "done"

Set(p, rec) == NoneDone /\ call' = [call EXCEPT ![p] = rec]

\* the request moves on to its next store call
Goto(c, pc) == [c EXCEPT !.pc = pc]

\* the request returns: the response, the loaded user and tenant rows and the
\* history remain, and on success every local variable the response was built from
Return(c, resp) ==
  IF resp.error = NoErr
  THEN [c EXCEPT !.pc = "done", !.resp = resp, !.from = c.pc]
  ELSE [Idle EXCEPT !.op = c.op, !.pc = "done", !.resp = resp, !.from = c.pc,
                    !.user = c.user, !.tenant = c.tenant,
                    !.fault = c.fault, !.credCase = c.credCase, !.validAtRead = c.validAtRead,
                    !.late = c.late, !.afterDisable = c.afterDisable, !.again = c.again,
                    !.audited = c.audited]

\* requests that will still generate a refresh token value
WillMint(c) ==
  \/ c.op = "Login" /\ c.pc \in {"L_GetTenant", "L_GetRoles", "L_GetPerms", "L_Save"}
  \/ c.op = "RefreshToken" /\ c.pc \in {"R_GetUser", "R_GetTenant", "R_GetRoles", "R_GetPerms", "R_Revoke"}

CanMint(cap) == minted + Cardinality({q \in Procs : WillMint(call[q])}) < cap

\* requests that will still write an audit row
WillAudit(c) ==
  /\ c.op \in {"Login", "Logout", "DisableUser", "SuspendTenant", "UpdateUser", "CreateUser"}
  /\ c.pc \notin {"idle", "done", "U_Reload"}

CanAudit == Len(auditLogs) + Cardinality({q \in Procs : WillAudit(call[q])}) < MaxAudit

\* generateRefreshToken: 32 random bytes, never a value generated before
generateRefreshToken(n) == n + 1

RoleNames(rs, ids) == [i \in 1..Len(ids) |-> rs[ids[i]]]

\* what the users table holds for the presented credentials
CredentialCase(us, email, password, tenantID) ==
  LET hit == {id \in DOMAIN us : us[id].email = email /\ us[id].tenantID = tenantID}
  IN IF hit # {}
     THEN IF \E id \in hit : us[id].passwordHash = GenerateFromPassword(password)
          THEN "match" ELSE "bad_password"
     ELSE IF \E id \in DOMAIN us : us[id].email = email THEN "other_tenant"
     ELSE "no_email"

Tick ==
  /\ NoneDone
  /\ now < MaxTime
  /\ now' = now + 1
  /\ UNCHANGED <<store, minted, call, successors, disabled, kept>>

\* the handler has written its response
Done(p) ==
  /\ call[p].pc = "done"
  /\ call' = [call EXCEPT ![p] = Idle]
  /\ UNCHANGED <<store, now, minted, successors, disabled, kept>>

\* ------------------------------------------------- VerifyAccessToken
ErrUnexpectedSigningMethod == "token parse error: unexpected signing method"
ErrSignatureInvalid == "token parse error: signature is invalid"
ErrTokenExpired == "token parse error: token is expired"

ErrInvalidSubClaim == "invalid sub claim"
ErrInvalidTenantClaim == "invalid tenant_id claim"
ErrInvalidExpClaim == "invalid exp claim"

\* v, _ := claims[name].(T): the zero value of T when the assertion fails
Claim(claims, name) == IF name \in claims.absent THEN NoClaims[name] ELSE claims[name]

\* a parser that asserts permissions to []string, which a decoded JSON array
\* never is
AccessTokenClaims_PermissionsLost(claims) ==
  [Sub |-> Claim(claims, "sub"), TenantID |-> Claim(claims, "tenant_id"),
   Role |-> Claim(claims, "role"), Roles |-> <<>>,
   Permissions |-> <<>>, IsSuperAdmin |-> Claim(claims, "is_super_admin"),
   ExpiresAt |-> Claim(claims, "exp"), IssuedAt |-> Claim(claims, "iat"), Issuer |-> Claim(claims, "iss")]

\* lines 109-132: the claims handed back on success; the struct's Roles field
\* is not assigned and keeps its zero value
AccessTokenClaims(claims) ==
  [Sub |-> Claim(claims, "sub"), TenantID |-> Claim(claims, "tenant_id"),
   Role |-> Claim(claims, "role"), Roles |-> <<>>,
   Permissions |-> Claim(claims, "permissions"), IsSuperAdmin |-> Claim(claims, "is_super_admin"),
   ExpiresAt |-> Claim(claims, "exp"), IssuedAt |-> Claim(claims, "iat"), Issuer |-> Claim(claims, "iss")]

\* lines 104-117: sub, tenant_id and exp are the claims whose type assertion is
\* checked
ClaimsError(claims) ==
  IF "sub" \in claims.absent THEN ErrInvalidSubClaim
  ELSE IF "tenant_id" \in claims.absent THEN ErrInvalidTenantClaim
  ELSE IF "exp" \in claims.absent THEN ErrInvalidExpClaim
  ELSE NoErr

\* the "exp" validation of jwt.Parse: a token without "exp" passes, a token
\* with one passes only while now.Before(exp)
Expired(claims, at) == "exp" \notin claims.absent /\ ~(at < claims.exp)

Verified(claims) == [err |-> NoErr, claims |-> AccessTokenClaims(claims)]

Rejected(err) == [err |-> err, claims |-> NoAccessTokenClaims]

\* a verifier that still accepts the token at its expiry instant
VerifyAccessToken_ExpiryInclusive(tokenString, at) ==
  IF tokenString.alg \notin SigningMethods THEN Rejected(ErrUnexpectedSigningMethod)
  ELSE IF tokenString.sig # SignedString(tokenString.alg, tokenString.claims, JwtSignatureKey)
  THEN Rejected(ErrSignatureInvalid)
  ELSE IF "exp" \notin tokenString.claims.absent /\ ~(at <= tokenString.claims.exp)
  THEN Rejected(ErrTokenExpired)
  ELSE IF ClaimsError(tokenString.claims) # NoErr THEN Rejected(ClaimsError(tokenString.claims))
  ELSE Verified(tokenString.claims)

\* a verifier that also looks the subject up in the users table
VerifyAccessToken_ChecksUser(tokenString, at) ==
  IF tokenString.alg \notin SigningMethods THEN Rejected(ErrUnexpectedSigningMethod)
  ELSE IF tokenString.sig # SignedString(tokenString.alg, tokenString.claims, JwtSignatureKey)
  THEN Rejected(ErrSignatureInvalid)
  ELSE IF Expired(tokenString.claims, at) THEN Rejected(ErrTokenExpired)
  ELSE IF ClaimsError(tokenString.claims) # NoErr THEN Rejected(ClaimsError(tokenString.claims))
  ELSE IF GetUserByID(users, tokenString.claims.sub).status # "ACTIVE" THEN Rejected(ErrUserNotActive)
  ELSE Verified(tokenString.claims)

\* a verifier that does not check the signature
VerifyAccessToken_NoSignature(tokenString, at) ==
  IF tokenString.alg \notin SigningMethods THEN Rejected(ErrUnexpectedSigningMethod)
  ELSE IF Expired(tokenString.claims, at) THEN Rejected(ErrTokenExpired)
  ELSE IF ClaimsError(tokenString.claims) # NoErr THEN Rejected(ClaimsError(tokenString.claims))
  ELSE Verified(tokenString.claims)

\* jwt_service.go 63-133 with jwt.Parse of golang-jwt v5.0.0: the key function
\* refuses every method that is not HMAC, the signature is recomputed with the
\* configured key, "exp" passes only while now.Before(exp), and sub, tenant_id
\* and exp must be present with their type
VerifyAccessToken(tokenString, at) ==
  IF tokenString.alg \notin SigningMethods THEN Rejected(ErrUnexpectedSigningMethod)
  ELSE IF tokenString.sig # SignedString(tokenString.alg, tokenString.claims, JwtSignatureKey)
  THEN Rejected(ErrSignatureInvalid)
  ELSE IF Expired(tokenString.claims, at) THEN Rejected(ErrTokenExpired)
  ELSE IF ClaimsError(tokenString.claims) # NoErr THEN Rejected(ClaimsError(tokenString.claims))
  ELSE Verified(tokenString.claims)

\* jwt_stateless.go 42-105: the validator other services import, built with
\* the issuer's key, signing method and name
ErrInvalidIssuer == "invalid issuer"

StatelessClaims(claims) ==
  [Sub |-> Claim(claims, "sub"), TenantID |-> Claim(claims, "tenant_id"), Role |-> Claim(claims, "role"),
   Permissions |-> Claim(claims, "permissions"), IsSuperAdmin |-> Claim(claims, "is_super_admin"),
   ExpiresAt |-> Claim(claims, "exp"), IssuedAt |-> Claim(claims, "iat"), Issuer |-> Claim(claims, "iss")]

NoStatelessClaims == StatelessClaims(NoClaims)

Verify(tokenString, at) ==
  IF tokenString.alg # "HS256" THEN [err |-> ErrUnexpectedSigningMethod, claims |-> NoStatelessClaims]
  ELSE IF tokenString.sig # SignedString(tokenString.alg, tokenString.claims, JwtSignatureKey)
  THEN [err |-> ErrSignatureInvalid, claims |-> NoStatelessClaims]
  ELSE IF Expired(tokenString.claims, at) THEN [err |-> ErrTokenExpired, claims |-> NoStatelessClaims]
  ELSE IF Claim(tokenString.claims, "iss") # AplicationName THEN [err |-> ErrInvalidIssuer, claims |-> NoStatelessClaims]
  ELSE [err |-> NoErr, claims |-> StatelessClaims(tokenString.claims)]

\* ------------------------------------------------------ the Gate (middleware)
ErrHeaderRequired == "Authorization header is required"
ErrInvalidAccessToken == "Invalid access token"
ErrForbidden == "You do not have permission to access this resource"

\* the role lists the routes pass to RequiredToken, and one naming OPERATOR
RequiredRoleSets == {{}, {"SUPER_ADMIN"}, {"OPERATOR", "SUPER_ADMIN"}}

\* what an attacker can make of a token without the server's key
Tampered(a) ==
  { [a EXCEPT !.claims.role = "SUPER_ADMIN"],
    [a EXCEPT !.claims.exp = @ + 1],
    [a EXCEPT !.sig = SignedString(a.alg, a.claims, "attacker-key")],
    [a EXCEPT !.claims.is_super_admin = TRUE, !.alg = "none", !.sig = <<>>],
    [alg |-> a.alg, claims |-> [a.claims EXCEPT !.sub = "u2"],
     sig |-> SignedString(a.alg, [a.claims EXCEPT !.sub = "u2"], "attacker-key")] }

\* auth_middleware.go 66-73
contains(slice, item) == \E i \in 1..Len(slice) : slice[i] = item

\* line 34: strings.Replace(header, "Bearer ", "", 1)
TrimBearer(header) == header.token

GateAbort(status, err, user) ==
  [resp |-> [NoResp EXCEPT !.status = status, !.error = err],
   ctx |-> [NoCtx EXCEPT !.user = user]]

\* a Gate that lets a request through when verification failed
RequiredToken_FailOpen(required, header, at) ==
  IF ~header.present THEN GateAbort(401, ErrHeaderRequired, NoAccessTokenClaims)
  ELSE LET v == VerifyAccessToken(TrimBearer(header), at)
       IN IF v.err # NoErr
          THEN [resp |-> NoResp, ctx |-> [user |-> v.claims, tenant_id |-> v.claims.TenantID, next |-> TRUE]]
          ELSE IF ~\E role \in required : contains(v.claims.Roles, role)
          THEN GateAbort(403, ErrForbidden, v.claims)
          ELSE [resp |-> NoResp,
                ctx |-> [user |-> v.claims, tenant_id |-> v.claims.TenantID, next |-> TRUE]]

\* auth_middleware.go 24-63
RequiredToken(required, header, at) ==
  IF ~header.present THEN GateAbort(401, ErrHeaderRequired, NoAccessTokenClaims)
  ELSE LET v == VerifyAccessToken(TrimBearer(header), at)
       IN IF v.err # NoErr THEN GateAbort(401, ErrInvalidAccessToken, NoAccessTokenClaims)
          ELSE IF ~\E role \in required : contains(v.claims.Roles, role)
          THEN GateAbort(403, ErrForbidden, v.claims)
          ELSE [resp |-> NoResp,
                ctx |-> [user |-> v.claims, tenant_id |-> v.claims.TenantID, next |-> TRUE]]

\* a request to a protected route, carrying no header, a token a caller holds,
\* or an altered copy of one
Gate(p) ==
  /\ call[p].pc = "idle"
  /\ \E required \in RequiredRoleSets :
       \E header \in {NoHeader} \cup {Bearer(a) : a \in kept}
                     \cup UNION {{Bearer(t) : t \in Tampered(a)} : a \in kept} :
         LET out == RequiredToken(required, header, now)
         IN Set(p, [Idle EXCEPT !.op = "Gate", !.pc = "done",
                                !.req = [NoReq EXCEPT !.authorization = header, !.required = required],
                                !.resp = out.resp, !.ctx = out.ctx,
                                !.forged = header.present /\ header.token \notin kept,
                                !.from = "idle"])
  /\ UNCHANGED <<store, now, minted, successors, disabled, kept>>

ClaimNames == {"sub", "tenant_id", "role", "permissions", "is_super_admin", "exp", "iat", "iss"}

\* the claims the earlier issuer of this service did not write
\* (unnamed/part_003 51-59: sub, tenant_id, email, roles, tenant_status, exp, iat)
EarlierIssuerOmits == {"role", "permissions", "is_super_admin", "iss"}

\* a token signed with the service's key whose claims lack the given names
Unshaped(a, names) ==
  LET claims == [a.claims EXCEPT !.absent = names]
  IN [alg |-> a.alg, claims |-> claims, sig |-> SignedString(a.alg, claims, JwtSignatureKey)]

Reshaped(a) == {Unshaped(a, {name}) : name \in ClaimNames} \cup {Unshaped(a, EarlierIssuerOmits)}

\* a request to a protected route carrying a correctly signed token of
\* another shape
GateReshaped(p) ==
  /\ call[p].pc = "idle"
  /\ \E required \in RequiredRoleSets :
       \E header \in UNION {{Bearer(t) : t \in Reshaped(a)} : a \in kept} :
         LET out == RequiredToken(required, header, now)
         IN Set(p, [Idle EXCEPT !.op = "Gate", !.pc = "done",
                                !.req = [NoReq EXCEPT !.authorization = header, !.required = required],
                                !.resp = out.resp, !.ctx = out.ctx,
                                !.forged = header.token \notin kept,
                                !.from = "idle"])
  /\ UNCHANGED <<store, now, minted, successors, disabled, kept>>

\* the caller reads the response and keeps the access token it carries
Keep(p) ==
  /\ call[p].pc = "done"
  /\ kept' = IF call[p].op \in {"Login", "RefreshToken"} /\ call[p].resp.error = NoErr
             THEN kept \cup {call[p].resp.accessToken}
             ELSE kept
  /\ call' = [call EXCEPT ![p] = Idle]
  /\ UNCHANGED <<store, now, minted, successors, disabled>>

\* ------------------------------------------------------------------ Login
\* lines 89-106: GetUserByEmail, password check, user status check
LoginGetUser(p, cap) ==
  /\ call[p].pc = "idle"
  /\ CanMint(cap)
  /\ CanAudit
  /\ \E email \in Emails, password \in Passwords, tenantID \in TenantIDs, ok \in BOOLEAN :
       LET user == IF ok THEN GetUserByEmail(users, email, tenantID) ELSE NoUser
           err == LoginUserCheck(user, password)
           c == [Idle EXCEPT !.op = "Login",
                             !.req = [NoReq EXCEPT !.email = email, !.password = password, !.tenantID = tenantID],
                             !.user = user,
                             !.fault = ~ok,
                             !.credCase = CredentialCase(users, email, password, tenantID),
                             !.afterDisable = \E id \in disabled :
                                                users[id].email = email /\ users[id].tenantID = tenantID]
       IN Set(p, IF err = NoErr THEN Goto(c, "L_GetTenant") ELSE Return(c, RespondError(err)))
  /\ UNCHANGED <<store, now, minted, successors, disabled, kept>>

\* lines 108-117: GetTenantByID, tenant status check
LoginGetTenant(p) ==
  /\ call[p].op = "Login" /\ call[p].pc = "L_GetTenant"
  /\ \E ok \in BOOLEAN :
       LET tenant == IF ok THEN GetTenantByID(tenants, call[p].req.tenantID) ELSE NoTenant
           err == LoginTenantCheck(tenant)
           c == [call[p] EXCEPT !.tenant = tenant, !.fault = @ \/ ~ok]
       IN Set(p, IF err = NoErr THEN Goto(c, "L_GetRoles") ELSE Return(c, RespondError(err)))
  /\ UNCHANGED <<store, now, minted, successors, disabled, kept>>

\* lines 119-123: GetRolesByUserID
LoginGetRoles(p) ==
  /\ call[p].op = "Login" /\ call[p].pc = "L_GetRoles"
  /\ \E ok \in BOOLEAN :
       LET c == [call[p] EXCEPT !.roles = GetRolesByUserID(userRoles, call[p].user.id)]
       IN Set(p, IF ok THEN Goto(c, "L_GetPerms")
                 ELSE Return([call[p] EXCEPT !.fault = TRUE], RespondError(ErrStorage)))
  /\ UNCHANGED <<store, now, minted, successors, disabled, kept>>

\* lines 125-137: GetPermissionsByRoleID for every role
LoginGetPerms(p) ==
  /\ call[p].op = "Login" /\ call[p].pc = "L_GetPerms"
  /\ \E ok \in BOOLEAN :
       LET c == [call[p] EXCEPT !.permissions = AggregatePermissions(rolePermissions, call[p].roles)]
       IN Set(p, IF ok THEN Goto(c, "L_Save")
                 ELSE Return([call[p] EXCEPT !.fault = TRUE], RespondError(ErrStorage)))
  /\ UNCHANGED <<store, now, minted, successors, disabled, kept>>

\* a save that reports an error although the row was inserted
LoginSave_RowKeptOnError(p) ==
  /\ call[p].op = "Login" /\ call[p].pc = "L_Save"
  /\ \E ok \in BOOLEAN :
       LET token == generateRefreshToken(minted)
           row == NewRefreshTokenRow(token, call[p].user.id, call[p].req.tenantID, now)
           c == [call[p] EXCEPT
                   !.accessToken = GenerateAccessToken(call[p].user, RoleNames(roles, call[p].roles),
                                                       call[p].tenant, call[p].permissions, now),
                   !.newRefreshToken = token]
       IN /\ minted' = token
          /\ IF ok
             THEN /\ refreshTokens' = SaveRefreshToken(refreshTokens, row)
                  /\ Set(p, Goto(c, "L_Audit"))
             ELSE /\ refreshTokens' = SaveRefreshToken(refreshTokens, row)
                  /\ Set(p, Return([c EXCEPT !.fault = TRUE], RespondError(ErrStorage)))
  /\ UNCHANGED <<users, tenants, roles, userRoles, rolePermissions, auditLogs, now, successors, disabled, kept>>

\* lines 139-161: GenerateAccessToken, generateRefreshToken, SaveRefreshToken
LoginSave(p) ==
  /\ call[p].op = "Login" /\ call[p].pc = "L_Save"
  /\ \E ok \in BOOLEAN :
       LET token == generateRefreshToken(minted)
           row == NewRefreshTokenRow(token, call[p].user.id, call[p].req.tenantID, now)
           c == [call[p] EXCEPT
                   !.accessToken = GenerateAccessToken(call[p].user, RoleNames(roles, call[p].roles),
                                                       call[p].tenant, call[p].permissions, now),
                   !.newRefreshToken = token]
       IN /\ minted' = token
          /\ IF ok
             THEN /\ refreshTokens' = SaveRefreshToken(refreshTokens, row)
                  /\ Set(p, Goto(c, "L_Audit"))
             ELSE /\ UNCHANGED refreshTokens
                  /\ Set(p, Return([c EXCEPT !.fault = TRUE], RespondError(ErrStorage)))
  /\ UNCHANGED <<users, tenants, roles, userRoles, rolePermissions, auditLogs, now, successors, disabled, kept>>

\* lines 163-177: CreateAuditLog (its error is dropped), response
LoginAudit(p) ==
  /\ call[p].op = "Login" /\ call[p].pc = "L_Audit"
  /\ \E ok \in BOOLEAN :
       LET written == CreateAuditLog(auditLogs, tenants,
                        AuditEntry(call[p].user.id, call[p].req.tenantID, "USER_LOGIN", call[p].user.id), ok)
           err == DropError(AuditError(auditLogs, written))
       IN /\ auditLogs' = written
          /\ Set(p, Return(call[p], IF err = NoErr
                                    THEN RespondOK(call[p].accessToken, call[p].newRefreshToken)
                                    ELSE RespondError(err)))
  /\ UNCHANGED <<users, tenants, roles, userRoles, rolePermissions, refreshTokens, now, minted, successors, disabled, kept>>

\* ----------------------------------------------------------- RefreshToken
\* lines 182-196: GetRefreshToken, revocation check, expiry check
RefreshGet(p, cap) ==
  /\ call[p].pc = "idle"
  /\ CanMint(cap)
  /\ \E t \in (DOMAIN refreshTokens) \cup {BogusToken}, ok \in BOOLEAN :
       LET rt == IF ok THEN GetRefreshToken(refreshTokens, t) ELSE NoToken
           err == RefreshTokenCheck(rt, now)
           c == [Idle EXCEPT !.op = "RefreshToken",
                             !.req = [NoReq EXCEPT !.refreshToken = t],
                             !.rt = rt,
                             !.fault = ~ok,
                             !.validAtRead = (/\ t \in DOMAIN refreshTokens
                                              /\ refreshTokens[t].revokedAt = Nil
                                              /\ ~(refreshTokens[t].expiresAt < now)),
                             !.late = (t \in TokenIDs /\ successors[t] # {}),
                             !.afterDisable = (t \in DOMAIN refreshTokens /\ refreshTokens[t].userID \in disabled)]
       IN Set(p, IF err = NoErr THEN Goto(c, "R_GetUser") ELSE Return(c, RespondError(err)))
  /\ UNCHANGED <<store, now, minted, successors, disabled, kept>>

\* lines 198-202: GetUserByID
RefreshGetUser(p) ==
  /\ call[p].op = "RefreshToken" /\ call[p].pc = "R_GetUser"
  /\ \E ok \in BOOLEAN :
       LET user == IF ok THEN GetUserByID(users, call[p].rt.userID) ELSE NoUser
           c == [call[p] EXCEPT !.user = user, !.fault = @ \/ ~ok]
       IN Set(p, IF user # NoUser THEN Goto(c, "R_GetTenant") ELSE Return(c, RespondError(ErrUserNotFound)))
  /\ UNCHANGED <<store, now, minted, successors, disabled, kept>>

\* lines 204-208: GetTenantByID
RefreshGetTenant(p) ==
  /\ call[p].op = "RefreshToken" /\ call[p].pc = "R_GetTenant"
  /\ \E ok \in BOOLEAN :
       LET tenant == IF ok THEN GetTenantByID(tenants, call[p].rt.tenantID) ELSE NoTenant
           c == [call[p] EXCEPT !.tenant = tenant, !.fault = @ \/ ~ok]
       IN Set(p, IF tenant # NoTenant THEN Goto(c, "R_GetRoles") ELSE Return(c, RespondError(ErrTenantNotFound)))
  /\ UNCHANGED <<store, now, minted, successors, disabled, kept>>

\* lines 210-214: GetRolesByUserID
RefreshGetRoles(p) ==
  /\ call[p].op = "RefreshToken" /\ call[p].pc = "R_GetRoles"
  /\ \E ok \in BOOLEAN :
       LET c == [call[p] EXCEPT !.roles = GetRolesByUserID(userRoles, call[p].user.id)]
       IN Set(p, IF ok THEN Goto(c, "R_GetPerms")
                 ELSE Return([call[p] EXCEPT !.fault = TRUE], RespondError(ErrStorage)))
  /\ UNCHANGED <<store, now, minted, successors, disabled, kept>>

\* lines 216-228: GetPermissionsByRoleID for every role
RefreshGetPerms(p) ==
  /\ call[p].op = "RefreshToken" /\ call[p].pc = "R_GetPerms"
  /\ \E ok \in BOOLEAN :
       LET c == [call[p] EXCEPT !.permissions = AggregatePermissions(rolePermissions, call[p].roles)]
       IN Set(p, IF ok THEN Goto(c, "R_Revoke")
                 ELSE Return([call[p] EXCEPT !.fault = TRUE], RespondError(ErrStorage)))
  /\ UNCHANGED <<store, now, minted, successors, disabled, kept>>

\* lines 230-245: GenerateAccessToken, generateRefreshToken, RevokeRefreshToken
RefreshRevoke(p) ==
  /\ call[p].op = "RefreshToken" /\ call[p].pc = "R_Revoke"
  /\ \E ok \in BOOLEAN :
       LET t == call[p].req.refreshToken
           c == [call[p] EXCEPT
                   !.accessToken = GenerateAccessToken(call[p].user, RoleNames(roles, call[p].roles),
                                                       call[p].tenant, call[p].permissions, now),
                   !.newRefreshToken = generateRefreshToken(minted)]
       IN /\ minted' = generateRefreshToken(minted)
          /\ IF ~ok
             THEN /\ UNCHANGED refreshTokens
                  /\ Set(p, Return([c EXCEPT !.fault = TRUE], RespondError(ErrStorage)))
             ELSE IF RevokeRowsAffected(refreshTokens, t) = 0
             THEN /\ UNCHANGED refreshTokens
                  /\ Set(p, Return(c, RespondError(ErrRefreshTokenNotFound)))
             ELSE /\ refreshTokens' = RevokeRefreshToken(refreshTokens, t, now)
                  /\ Set(p, Goto(c, "R_Save"))
  /\ UNCHANGED <<users, tenants, roles, userRoles, rolePermissions, auditLogs, now, successors, disabled, kept>>

\* lines 247-263: SaveRefreshToken, response
RefreshSave(p) ==
  /\ call[p].op = "RefreshToken" /\ call[p].pc = "R_Save"
  /\ \E ok \in BOOLEAN :
       LET t == call[p].req.refreshToken
           token == call[p].newRefreshToken
           row == NewRefreshTokenRow(token, call[p].rt.userID, call[p].rt.tenantID, now)
       IN IF ok
          THEN /\ refreshTokens' = SaveRefreshToken(refreshTokens, row)
               /\ successors' = [successors EXCEPT ![t] = @ \cup {token}]
               /\ Set(p, Return(call[p], RespondOK(call[p].accessToken, token)))
          ELSE /\ UNCHANGED <<refreshTokens, successors>>
               /\ Set(p, Return([call[p] EXCEPT !.fault = TRUE], RespondError(ErrStorage)))
  /\ UNCHANGED <<users, tenants, roles, userRoles, rolePermissions, auditLogs, now, minted, disabled, kept>>

\* ----------------------------------------------------------------- Logout
\* lines 323-327: RevokeRefreshToken
LogoutRevoke(p) ==
  /\ call[p].pc = "idle"
  /\ CanAudit
  /\ \E actorID \in Actors, t \in (DOMAIN refreshTokens) \cup {BogusToken}, ok \in BOOLEAN :
       LET c == [Idle EXCEPT !.op = "Logout",
                             !.req = [NoReq EXCEPT !.actorID = actorID, !.refreshToken = t],
                             !.fault = ~ok,
                             !.again = GetRefreshToken(refreshTokens, t).revokedAt # Nil]
       IN IF ~ok
          THEN /\ UNCHANGED refreshTokens
               /\ Set(p, Return(c, RespondError(ErrStorage)))
          ELSE IF RevokeRowsAffected(refreshTokens, t) = 0
          THEN /\ UNCHANGED refreshTokens
               /\ Set(p, Return(c, RespondError(ErrRefreshTokenNotFound)))
          ELSE /\ refreshTokens' = RevokeRefreshToken(refreshTokens, t, now)
               /\ Set(p, Goto(c, "O_Audit"))
  /\ UNCHANGED <<users, tenants, roles, userRoles, rolePermissions, auditLogs, now, minted, successors, disabled, kept>>

\* lines 329-339: CreateAuditLog with TenantID "" (its error is dropped)
LogoutAudit(p) ==
  /\ call[p].op = "Logout" /\ call[p].pc = "O_Audit"
  /\ \E ok \in BOOLEAN :
       LET written == CreateAuditLog(auditLogs, tenants,
                        AuditEntry(call[p].req.actorID, "", "USER_LOGOUT", ToString(call[p].req.refreshToken)), ok)
           err == DropError(AuditError(auditLogs, written))
       IN /\ auditLogs' = written
          /\ Set(p, Return(call[p], IF err = NoErr THEN [NoResp EXCEPT !.status = 204]
                                    ELSE RespondError(err)))
  /\ UNCHANGED <<users, tenants, roles, userRoles, rolePermissions, refreshTokens, now, minted, successors, disabled, kept>>

\* ------------------------------------------------------------ DisableUser
\* lines 128-131: GetUserByID
DisableGetUser(p) ==
  /\ call[p].pc = "idle"
  /\ CanAudit
  /\ \E id \in DisableTargets, actorID \in Actors, ok \in BOOLEAN :
       LET user == IF ok THEN GetUserByID(users, id) ELSE NoUser
           c == [Idle EXCEPT !.op = "DisableUser",
                             !.req = [NoReq EXCEPT !.id = id, !.actorID = actorID],
                             !.user = user,
                             !.fault = ~ok]
       IN Set(p, IF user # NoUser THEN Goto(c, "D_Update")
                 ELSE Return(c, RespondError(IF ok THEN ErrUserNotFound ELSE ErrStorage)))
  /\ UNCHANGED <<store, now, minted, successors, disabled, kept>>

\* lines 133-136: UpdateUserStatus(id, "INACTIVE")
DisableUpdateStatus(p) ==
  /\ call[p].op = "DisableUser" /\ call[p].pc = "D_Update"
  /\ \E ok \in BOOLEAN :
       IF ok
       THEN /\ users' = UpdateUserStatus(users, call[p].req.id, "INACTIVE")
            /\ Set(p, Goto(call[p], "D_RevokeAll"))
       ELSE /\ UNCHANGED users
            /\ Set(p, Return([call[p] EXCEPT !.fault = TRUE], RespondError(ErrStorage)))
  /\ UNCHANGED <<tenants, roles, userRoles, rolePermissions, refreshTokens, auditLogs, now, minted, successors, disabled, kept>>

\* lines 138-141: RevokeAllRefreshTokensByUserID
DisableRevokeAll(p) ==
  /\ call[p].op = "DisableUser" /\ call[p].pc = "D_RevokeAll"
  /\ \E ok \in BOOLEAN :
       IF ok
       THEN /\ refreshTokens' = RevokeAllRefreshTokensByUserID(refreshTokens, call[p].req.id, now)
            /\ Set(p, Goto(call[p], "D_Audit"))
       ELSE /\ UNCHANGED refreshTokens
            /\ Set(p, Return([call[p] EXCEPT !.fault = TRUE], RespondError(ErrStorage)))
  /\ UNCHANGED <<users, tenants, roles, userRoles, rolePermissions, auditLogs, now, minted, successors, disabled, kept>>

\* lines 143-152: CreateAuditLog (its error is dropped), return nil
DisableAudit(p) ==
  /\ call[p].op = "DisableUser" /\ call[p].pc = "D_Audit"
  /\ \E ok \in BOOLEAN :
       LET written == CreateAuditLog(auditLogs, tenants,
                        AuditEntry(call[p].req.actorID, call[p].user.tenantID, "USER_DISABLED", call[p].user.id), ok)
           err == DropError(AuditError(auditLogs, written))
       IN /\ auditLogs' = written
          /\ disabled' = IF err = NoErr THEN disabled \cup {call[p].req.id} ELSE disabled
          /\ Set(p, Return(call[p], IF err = NoErr THEN [NoResp EXCEPT !.status = 200]
                                    ELSE RespondError(err)))
  /\ UNCHANGED <<users, tenants, roles, userRoles, rolePermissions, refreshTokens, now, minted, successors, kept>>

\* ------------------------------------------------------------- UpdateUser
\* the role lists an administrator sends for a user: the empty list clears the
\* user's roles, "ghost" is no role
RoleUpdates == {<<>>, <<"super-admin">>, <<"operator", "super-admin">>, <<"ghost">>}

UpdateTargets == {"u1"}

ErrRoleNotFound == "role not found: ghost"

\* repository/user.go 200-253: one transaction that updates the user row and,
\* when role ids are given, replaces the user's rows of user_roles; a role id
\* that does not exist rolls everything back
UpdateUserWithRolesError(rs, roleIDs) ==
  IF \E i \in 1..Len(roleIDs) : roleIDs[i] \notin DOMAIN rs THEN ErrRoleNotFound ELSE NoErr

UpdateUserWithRoles(ur, userID, roleIDs) == [ur EXCEPT ![userID] = roleIDs]

\* the tenant ids an administrator sends for a user: "" leaves the tenant as it is
UpdateTenants == {"", "t2"}

\* usecase/user.go 86-99: the fields of the request that are not empty replace
\* the fields of the row that was read
ApplyUpdates(user, tenantID) ==
  IF tenantID # "" THEN [user EXCEPT !.tenantID = tenantID] ELSE user

\* UPDATE users SET tenant_id = $1, email = $2, password_hash = $3 WHERE id = $5
UpdateUserRow(us, user) ==
  IF user.id \in DOMAIN us
  THEN [us EXCEPT ![user.id].tenantID = user.tenantID, ![user.id].email = user.email,
                  ![user.id].passwordHash = user.passwordHash]
  ELSE us

\* usecase/user.go 81-101: GetUserByID, apply the request's tenant; email and
\* password are left as they are (empty fields of the request)
UpdateGetUser(p) ==
  /\ call[p].pc = "idle"
  /\ CanAudit
  /\ \E id \in UpdateTargets, roleIDs \in RoleUpdates, tenantID \in UpdateTenants,
        actorID \in Actors, ok \in BOOLEAN :
       LET user == IF ok THEN GetUserByID(users, id) ELSE NoUser
           c == [Idle EXCEPT !.op = "UpdateUser",
                             !.req = [NoReq EXCEPT !.id = id, !.roleIDs = roleIDs, !.actorID = actorID,
                                                   !.tenantID = tenantID],
                             !.user = IF user = NoUser THEN NoUser ELSE ApplyUpdates(user, tenantID),
                             !.fault = ~ok]
       IN Set(p, IF user # NoUser THEN Goto(c, "U_Update")
                 ELSE Return(c, RespondError(IF ok THEN ErrUserNotFound ELSE ErrStorage)))
  /\ UNCHANGED <<store, now, minted, successors, disabled, kept>>

\* usecase/user.go 103-106: UpdateUserWithRoles
UpdateRoles(p) ==
  /\ call[p].op = "UpdateUser" /\ call[p].pc = "U_Update"
  /\ \E ok \in BOOLEAN :
       LET err == IF ok THEN UpdateUserWithRolesError(roles, call[p].req.roleIDs) ELSE ErrStorage
       IN IF err = NoErr
          THEN /\ users' = UpdateUserRow(users, call[p].user)
               /\ userRoles' = UpdateUserWithRoles(userRoles, call[p].req.id, call[p].req.roleIDs)
               /\ Set(p, Goto(call[p], "U_Audit"))
          ELSE /\ UNCHANGED <<users, userRoles>>
               /\ Set(p, Return([call[p] EXCEPT !.fault = ~ok], RespondError(err)))
  /\ UNCHANGED <<tenants, roles, rolePermissions, refreshTokens, auditLogs, now, minted, successors, disabled, kept>>

\* usecase/user.go 108-116: CreateAuditLog (its error is dropped)
UpdateAudit(p) ==
  /\ call[p].op = "UpdateUser" /\ call[p].pc = "U_Audit"
  /\ \E ok \in BOOLEAN :
       LET written == CreateAuditLog(auditLogs, tenants,
                        AuditEntry(call[p].req.actorID, call[p].user.tenantID, "USER_UPDATED", call[p].user.id), ok)
       IN /\ auditLogs' = written
          /\ Set(p, Goto([call[p] EXCEPT !.audited = written # auditLogs], "U_Reload"))
  /\ UNCHANGED <<users, tenants, roles, userRoles, rolePermissions, refreshTokens, now, minted, successors, disabled, kept>>

\* usecase/user.go 118-123: GetUserByID again, return the row
UpdateReload(p) ==
  /\ call[p].op = "UpdateUser" /\ call[p].pc = "U_Reload"
  /\ \E ok \in BOOLEAN :
       LET user == IF ok THEN GetUserByID(users, call[p].req.id) ELSE NoUser
           c == [call[p] EXCEPT !.user = user, !.fault = @ \/ ~ok]
       IN Set(p, IF user # NoUser THEN Return(c, [NoResp EXCEPT !.status = 200])
                 ELSE Return(c, RespondError(IF ok THEN ErrUserNotFound ELSE ErrStorage)))
  /\ UNCHANGED <<store, now, minted, successors, disabled, kept>>

\* ------------------------------------------------------------- CreateUser
\* uuid.New(): an id no row has yet
NewUserIDs == {"u3"}

\* the role lists a CreateUser request carries
CreateRoleLists == {<<>>, <<"operator">>}

\* a row inserted with another status than ACTIVE
NewUserRow_Pending(id, email, tenantID, password) ==
  [id |-> id, tenantID |-> tenantID, email |-> email,
   passwordHash |-> GenerateFromPassword(password), status |-> "PENDING"]

\* usecase/auth.go 268-282: the row CreateUser builds
NewUserRow(id, email, tenantID, password) ==
  [id |-> id, tenantID |-> tenantID, email |-> email,
   passwordHash |-> GenerateFromPassword(password), status |-> "ACTIVE"]

\* INSERT INTO users: the tenant must exist and (tenant_id, email) be new
CreateUserConflict(us, ts, row) ==
  \/ row.tenantID \notin DOMAIN ts
  \/ \E id \in DOMAIN us : us[id].tenantID = row.tenantID /\ us[id].email = row.email

InsertUser(us, row) == [id \in DOMAIN us \cup {row.id} |-> IF id = row.id THEN row ELSE us[id]]

\* INSERT INTO user_roles
AssignRoleToUser(ur, userID, roleID) ==
  [id \in DOMAIN ur \cup {userID} |->
     IF id = userID THEN (IF id \in DOMAIN ur THEN ur[id] ELSE <<>>) \o <<roleID>> ELSE ur[id]]

\* usecase/auth.go 268-287: hash the password, insert the row
CreateInsert(p) ==
  /\ call[p].pc = "idle"
  /\ CanAudit
  /\ \E id \in NewUserIDs \ DOMAIN users, email \in Emails, password \in Passwords,
        tenantID \in TenantIDs, roleIDs \in CreateRoleLists, ok \in BOOLEAN :
       LET row == NewUserRow(id, email, tenantID, password)
           c == [Idle EXCEPT !.op = "CreateUser",
                             !.req = [NoReq EXCEPT !.email = email, !.password = password,
                                                   !.tenantID = tenantID, !.roleIDs = roleIDs],
                             !.roles = roleIDs,
                             !.fault = ~ok]
       IN IF ok /\ ~CreateUserConflict(users, tenants, row)
          THEN /\ users' = InsertUser(users, row)
               /\ Set(p, Goto([c EXCEPT !.user = row], IF roleIDs = <<>> THEN "C_Audit" ELSE "C_Assign"))
          ELSE /\ UNCHANGED users
               /\ Set(p, Return([c EXCEPT !.fault = TRUE], RespondError(ErrStorage)))
  /\ UNCHANGED <<tenants, roles, userRoles, rolePermissions, refreshTokens, auditLogs, now, minted, successors, disabled, kept>>

\* usecase/auth.go 289-294: AssignRoleToUser for the next role of the request
CreateAssign(p) ==
  /\ call[p].op = "CreateUser" /\ call[p].pc = "C_Assign"
  /\ \E ok \in BOOLEAN :
       LET roleID == Head(call[p].roles)
           rest == Tail(call[p].roles)
       IN IF ok /\ roleID \in DOMAIN roles
          THEN /\ userRoles' = AssignRoleToUser(userRoles, call[p].user.id, roleID)
               /\ Set(p, Goto([call[p] EXCEPT !.roles = rest],
                              IF rest = <<>> THEN "C_Audit" ELSE "C_Assign"))
          ELSE /\ UNCHANGED userRoles
               /\ Set(p, Return([call[p] EXCEPT !.fault = TRUE], RespondError(ErrStorage)))
  /\ UNCHANGED <<users, tenants, roles, rolePermissions, refreshTokens, auditLogs, now, minted, successors, disabled, kept>>

\* usecase/auth.go 296-310: CreateAuditLog (its error is dropped), return the row
CreateAudit(p) ==
  /\ call[p].op = "CreateUser" /\ call[p].pc = "C_Audit"
  /\ \E ok \in BOOLEAN :
       auditLogs' = CreateAuditLog(auditLogs, tenants,
                      AuditEntry("system", call[p].req.tenantID, "USER_CREATED", call[p].user.id), ok)
  /\ Set(p, Return(call[p], [NoResp EXCEPT !.status = 201]))
  /\ UNCHANGED <<users, tenants, roles, userRoles, rolePermissions, refreshTokens, now, minted, successors, disabled, kept>>

\* ---------------------------------------------------------- SuspendTenant
\* lines 134-142: GetTenantByID; an already suspended tenant returns nil
SuspendGetTenant(p) ==
  /\ call[p].pc = "idle"
  /\ CanAudit
  /\ \E id \in SuspendTargets, actorID \in Actors, ok \in BOOLEAN :
       LET tenant == IF ok THEN GetTenantByID(tenants, id) ELSE NoTenant
           c == [Idle EXCEPT !.op = "SuspendTenant",
                             !.req = [NoReq EXCEPT !.id = id, !.actorID = actorID],
                             !.tenant = tenant,
                             !.fault = ~ok]
       IN Set(p, IF tenant = NoTenant
                 THEN Return(c, RespondError(IF ok THEN ErrTenantNotFound ELSE ErrStorage))
                 ELSE IF tenant.status = "SUSPENDED"
                 THEN Return(c, [NoResp EXCEPT !.status = 200])
                 ELSE Goto(c, "S_Update"))
  /\ UNCHANGED <<store, now, minted, successors, disabled, kept>>

\* lines 144-146: UpdateTenantStatus(id, "SUSPENDED")
SuspendUpdateStatus(p) ==
  /\ call[p].op = "SuspendTenant" /\ call[p].pc = "S_Update"
  /\ \E ok \in BOOLEAN :
       IF ok
       THEN /\ tenants' = UpdateTenantStatus(tenants, call[p].req.id, "SUSPENDED")
            /\ Set(p, Goto(call[p], "S_Audit"))
       ELSE /\ UNCHANGED tenants
            /\ Set(p, Return([call[p] EXCEPT !.fault = TRUE], RespondError(ErrStorage)))
  /\ UNCHANGED <<users, roles, userRoles, rolePermissions, refreshTokens, auditLogs, now, minted, successors, disabled, kept>>

\* lines 148-159: CreateAuditLog (its error is dropped), return nil
SuspendAudit(p) ==
  /\ call[p].op = "SuspendTenant" /\ call[p].pc = "S_Audit"
  /\ \E ok \in BOOLEAN :
       auditLogs' = CreateAuditLog(auditLogs, tenants,
                      AuditEntry(call[p].req.actorID, call[p].req.id, "TENANT_SUSPENDED", call[p].req.id), ok)
  /\ Set(p, Return(call[p], [NoResp EXCEPT !.status = 200]))
  /\ UNCHANGED <<users, tenants, roles, userRoles, rolePermissions, refreshTokens, now, minted, successors, disabled, kept>>

\* ------------------------------------------------------------------- spec
Login(p, cap) ==
  \/ LoginGetUser(p, cap) \/ LoginGetTenant(p) \/ LoginGetRoles(p)
  \/ LoginGetPerms(p) \/ LoginSave(p) \/ LoginAudit(p)

RefreshToken(p, cap) ==
  \/ RefreshGet(p, cap) \/ RefreshGetUser(p) \/ RefreshGetTenant(p) \/ RefreshGetRoles(p)
  \/ RefreshGetPerms(p) \/ RefreshRevoke(p) \/ RefreshSave(p)

Logout(p) == LogoutRevoke(p) \/ LogoutAudit(p)

DisableUser(p) ==
  \/ DisableGetUser(p) \/ DisableUpdateStatus(p) \/ DisableRevokeAll(p) \/ DisableAudit(p)

SuspendTenant(p) == SuspendGetTenant(p) \/ SuspendUpdateStatus(p) \/ SuspendAudit(p)

UpdateUser(p) == UpdateGetUser(p) \/ UpdateRoles(p) \/ UpdateAudit(p) \/ UpdateReload(p)

CreateUser(p) == CreateInsert(p) \/ CreateAssign(p) \/ CreateAudit(p)

Next ==
  \/ Tick
  \/ \E p \in Procs : Login(p, NumTokens)
  \/ \E p \in Procs : RefreshToken(p, NumTokens)
  \/ \E p \in Procs : Logout(p)
  \/ \E p \in Procs : DisableUser(p)
  \/ \E p \in Procs : SuspendTenant(p)
  \/ \E p \in Procs : Done(p)

Spec == Init /\ [][Next]_vars

\* The requests that interleave within one instant of the clock: one more
\* refresh token value than under Spec, and the clock stands still.
NextRace ==
  \/ \E p \in Procs : Login(p, RaceTokens)
  \/ \E p \in Procs : RefreshToken(p, RaceTokens)
  \/ \E p \in Procs : Logout(p)
  \/ \E p \in Procs : DisableUser(p)
  \/ \E p \in Procs : SuspendTenant(p)
  \/ \E p \in Procs : Done(p)

SpecRace == Init /\ [][NextRace]_vars

\* The requests served one after the other while the clock runs: a request
\* is taken up only when no other request is in flight.
Alone(p) == \A q \in Procs \ {p} : call[q].pc = "idle"

NextSerial ==
  \/ Tick
  \/ \E p \in Procs : Alone(p) /\ Login(p, NumTokens)
  \/ \E p \in Procs : Alone(p) /\ RefreshToken(p, NumTokens)
  \/ \E p \in Procs : Alone(p) /\ Logout(p)
  \/ \E p \in Procs : Alone(p) /\ DisableUser(p)
  \/ \E p \in Procs : Alone(p) /\ SuspendTenant(p)
  \/ \E p \in Procs : Done(p)

SpecSerial == Init /\ [][NextSerial]_vars

\* One caller who logs in, keeps the access tokens it is handed and presents
\* them (or altered copies) to protected routes while the clock runs.
GateProcs == {"p1"}

NextGate ==
  \/ Tick
  \/ \E p \in GateProcs : Login(p, NumTokens)
  \/ \E p \in GateProcs : RefreshToken(p, NumTokens)
  \/ \E p \in GateProcs : Gate(p)
  \/ \E p \in GateProcs : Keep(p)

SpecGate == Init /\ [][NextGate]_vars

\* The same caller and a holder of correctly signed tokens of another shape.
NextShape ==
  \/ Tick
  \/ \E p \in GateProcs : Login(p, NumTokens)
  \/ \E p \in GateProcs : RefreshToken(p, NumTokens)
  \/ \E p \in GateProcs : Gate(p)
  \/ \E p \in GateProcs : GateReshaped(p)
  \/ \E p \in GateProcs : Keep(p)

SpecShape == Init /\ [][NextShape]_vars

\* The same caller while sessions are revoked, users disabled and tenants
\* suspended; every token it holds is still inside its lifetime.
NextFrame ==
  \/ \E p \in GateProcs : Login(p, NumTokens)
  \/ \E p \in GateProcs : RefreshToken(p, NumTokens)
  \/ \E p \in GateProcs : Logout(p)
  \/ \E p \in GateProcs : DisableUser(p)
  \/ \E p \in GateProcs : SuspendTenant(p)
  \/ \E p \in GateProcs : Gate(p)
  \/ \E p \in GateProcs : Keep(p)

SpecFrame == Init /\ [][NextFrame]_vars

\* The same caller while an administrator changes the user's roles.
NextRoles ==
  \/ \E p \in GateProcs : Login(p, NumTokens)
  \/ \E p \in GateProcs : RefreshToken(p, NumTokens)
  \/ \E p \in GateProcs : UpdateUser(p)
  \/ \E p \in GateProcs : Keep(p)

SpecRoles == Init /\ [][NextRoles]_vars

\* One caller who creates users and logs in.
NextCreate ==
  \/ \E p \in GateProcs : CreateUser(p)
  \/ \E p \in GateProcs : Login(p, NumTokens)
  \/ \E p \in GateProcs : Done(p)

SpecCreate == Init /\ [][NextCreate]_vars

TypeOK ==
  /\ now \in 0..MaxTime
  /\ minted \in 0..RaceTokens
  /\ DOMAIN refreshTokens \subseteq TokenIDs
  /\ \A p \in Procs : call[p].pc # "idle" => call[p].op # "none"

\* ----------------------------------------------------------------- claims
Finished(p, op) == call[p].pc = "done" /\ call[p].op = op

Succeeded(p) == call[p].resp.error = NoErr

Failed(p) == call[p].resp.error # NoErr

\* C1: concurrent RefreshToken calls that present the same token value: at
\* most one of them returns a successor refresh token (checked under SpecRace).
C1_OneSuccessorPerToken ==
  \A t \in TokenIDs : Cardinality(successors[t]) <= 1

\* C2: once a RefreshToken(t) has succeeded, every RefreshToken that reads t
\* afterwards fails, whatever ran in between (checked under SpecRace).
C2_RotationSingleUse ==
  \A p \in Procs :
    (Finished(p, "RefreshToken") /\ call[p].late)
      => /\ call[p].resp.status = 401
         /\ call[p].resp.error \in {ErrRefreshTokenRevoked, ErrRefreshTokenNotFound}
         /\ call[p].resp.refreshToken = BogusToken

W_C2_RotatedTokenRejected ==
  \E p \in Procs :
    /\ Finished(p, "RefreshToken") /\ call[p].late
    /\ call[p].resp.error = ErrRefreshTokenRevoked

\* C3: after DisableUser(u) has returned nil, every RefreshToken that then
\* reads a token owned by u fails (checked under SpecRace).
C3_NoRefreshAfterDisable ==
  \A p \in Procs :
    (Finished(p, "RefreshToken") /\ call[p].afterDisable) => Failed(p)

\* C4: a RefreshToken succeeds only if the stored row it read was, at the
\* moment of the read, not revoked and not past its expiry (checked under
\* SpecSerial).
C4_OnlyValidTokenHonoured ==
  \A p \in Procs :
    (Finished(p, "RefreshToken") /\ Succeeded(p))
      => /\ call[p].validAtRead
         /\ call[p].rt.token = call[p].req.refreshToken
         /\ call[p].rt.revokedAt = Nil

W_C4_ExpiredTokenRejected ==
  \E p \in Procs :
    /\ Finished(p, "RefreshToken") /\ ~call[p].validAtRead
    /\ call[p].resp.error = ErrRefreshTokenExpired

\* the Login token a token descends from by rotation
Parents(t) == {s \in TokenIDs : t \in successors[s]}

RECURSIVE ChainRoot(_, _)
ChainRoot(t, n) ==
  IF n = 0 \/ Parents(t) = {} THEN t
  ELSE ChainRoot(CHOOSE s \in Parents(t) : TRUE, n - 1)

Honoured(t) ==
  /\ t \in DOMAIN refreshTokens
  /\ refreshTokens[t].revokedAt = Nil
  /\ ~(refreshTokens[t].expiresAt < now)

\* C5: rotation is all-or-nothing: a RefreshToken whose SaveRefreshToken fails
\* leaves the presented token unrevoked, and no state holds two honoured
\* tokens of one rotation chain.
C5_RotationAllOrNothing ==
  /\ [][\A p \in Procs :
          (/\ call[p].op = "RefreshToken" /\ call[p].pc = "R_Save"
           /\ call'[p].pc = "done" /\ call'[p].resp.error # NoErr)
            => refreshTokens'[call[p].req.refreshToken].revokedAt = Nil]_vars
  /\ [](\A a, b \in DOMAIN refreshTokens :
          (a # b /\ Honoured(a) /\ Honoured(b))
            => ChainRoot(a, RaceTokens) # ChainRoot(b, RaceTokens))

\* C6: Login and RefreshToken return tokens only when the tenant row they
\* loaded is ACTIVE.
C6_SessionOnlyForActiveTenant ==
  \A p \in Procs :
    ((Finished(p, "Login") \/ Finished(p, "RefreshToken")) /\ Succeeded(p))
      => call[p].tenant.status = "ACTIVE"

\* C7: DisableUser is all-or-nothing: when RevokeAllRefreshTokensByUserID
\* fails, DisableUser reports the error and the user is not left INACTIVE by
\* this call while one of the user's refresh tokens is still unrevoked.
C7_DisableAllOrNothing ==
  [][\A p \in Procs :
       (/\ call[p].op = "DisableUser" /\ call[p].pc = "D_RevokeAll"
        /\ call'[p].pc = "done" /\ call'[p].resp.error # NoErr)
         => /\ call'[p].resp.error = ErrStorage
            /\ \/ users'[call[p].req.id].status = call[p].user.status
               \/ \A t \in DOMAIN refreshTokens' :
                    refreshTokens'[t].userID = call[p].req.id => refreshTokens'[t].revokedAt # Nil]_vars

\* the Login of p met no failing store call, found the user, the password
\* matched, the user row was ACTIVE and so was the tenant row once loaded
ValidLogin(p) ==
  /\ Finished(p, "Login")
  /\ ~call[p].fault
  /\ call[p].credCase = "match"
  /\ call[p].user.status = "ACTIVE"
  /\ call[p].from = "idle" \/ call[p].tenant.status = "ACTIVE"

\* C8: a Login with matching credentials, ACTIVE user, ACTIVE tenant and no
\* failing store call succeeds with a non-empty access token, expires_in equal
\* to the access-token lifetime and a refresh token stored for that user and
\* tenant with expiry = time of the save + refresh lifetime; the row is stored
\* unrevoked (checked under SpecSerial).
C8_LoginIssuesSession ==
  /\ [](\A p \in Procs :
          ValidLogin(p)
            => /\ call[p].resp.status = 200
               /\ call[p].resp.accessToken # NoAccessToken
               /\ call[p].resp.accessToken.claims.sub = call[p].user.id
               /\ call[p].resp.expiresIn = AccessTokenLifeTime
               /\ call[p].resp.refreshToken \in DOMAIN refreshTokens
               /\ LET row == refreshTokens[call[p].resp.refreshToken]
                  IN /\ row.userID = call[p].user.id
                     /\ row.tenantID = call[p].req.tenantID
                     /\ row.expiresAt = row.createdAt + RefreshTokenExpiry
                     /\ row.createdAt <= now)
  /\ [][\A p \in Procs :
          (call[p].op = "Login" /\ call[p].pc = "L_Save" /\ call'[p].pc = "L_Audit")
            => LET row == refreshTokens'[call'[p].newRefreshToken]
               IN /\ call'[p].newRefreshToken \notin DOMAIN refreshTokens
                  /\ row.revokedAt = Nil
                  /\ row.expiresAt = now + RefreshTokenExpiry]_vars

W_C8_LoginSucceeded ==
  \E p \in Procs :
    /\ ValidLogin(p)
    /\ call[p].resp.status = 200
    /\ now > 0
    /\ refreshTokens[call[p].resp.refreshToken].expiresAt = now + RefreshTokenExpiry

\* C9: Login answers with the same invalid-credentials response when no user
\* has the email, when the user is in another tenant, and when the password
\* does not match (checked under SpecRace).
C9_UniformInvalidCredentials ==
  \A p \in Procs :
    (Finished(p, "Login") /\ call[p].credCase \in {"no_email", "other_tenant", "bad_password"})
      => call[p].resp = RespondError(ErrInvalidCredentials)

W_C9_OtherTenantRejected ==
  \E p \in Procs :
    /\ Finished(p, "Login") /\ call[p].credCase = "other_tenant" /\ ~call[p].fault
    /\ call[p].resp = RespondError(ErrInvalidCredentials)

\* the response RefreshToken gives for a token value that is not stored
InvalidRefreshToken == RespondError(RefreshTokenCheck(NoToken, 0))

\* C10: RefreshToken gives one and the same response when the token is not
\* found, revoked or expired and when its user or tenant is missing.
C10_UniformInvalidRefreshToken ==
  \A p \in Procs :
    (/\ Finished(p, "RefreshToken") /\ Failed(p)
     /\ call[p].from \in {"idle", "R_GetUser", "R_GetTenant"})
      => call[p].resp = InvalidRefreshToken

\* C11: an issued access token expires at issue time + access lifetime; it
\* verifies at every time strictly before that instant and is refused at that
\* instant and at every later one (checked under SpecGate).
C11_AccessTokenValidUntilExpiry ==
  \A p \in Procs :
    Finished(p, "Gate") /\ call[p].req.authorization.present /\ ~call[p].forged
      => LET a == call[p].req.authorization.token
         IN /\ a.claims.exp = a.claims.iat + AccessTokenLifeTime
            /\ (now < a.claims.exp) <=> (call[p].resp.status # 401)
            /\ (now >= a.claims.exp) => call[p].resp.error = ErrInvalidAccessToken

W_C11_RefusedAtExpiryInstant ==
  \E p \in Procs :
    /\ Finished(p, "Gate") /\ call[p].req.authorization.present /\ ~call[p].forged
    /\ now = call[p].req.authorization.token.claims.exp
    /\ call[p].resp.status = 401

\* the store no longer backs the session the access token was issued in: its
\* subject is disabled, its tenant suspended, or a refresh token of its subject
\* revoked (by Logout, by rotation or by DisableUser)
SessionWithdrawn(a) ==
  \/ GetUserByID(users, a.claims.sub).status # "ACTIVE"
  \/ GetTenantByID(tenants, a.claims.tenant_id).status # "ACTIVE"
  \/ \E t \in DOMAIN refreshTokens :
       refreshTokens[t].userID = a.claims.sub /\ refreshTokens[t].revokedAt # Nil

SignedClaims == {a.claims : a \in kept}

\* C13: a token whose claims or signature were changed after issuance fails
\* verification, and verification never hands back claims other than those the
\* service signed (checked under SpecGate).
C13_AlteredTokenRejected ==
  \A p \in Procs :
    Finished(p, "Gate") /\ call[p].req.authorization.present
      => LET a == call[p].req.authorization.token
         IN /\ call[p].forged
                => /\ call[p].resp.status = 401
                   /\ call[p].resp.error = ErrInvalidAccessToken
                   /\ call[p].ctx.user = NoAccessTokenClaims
                   /\ Verify(a, now).err # NoErr
            /\ call[p].resp.status # 401
                => \E c \in SignedClaims :
                     /\ call[p].ctx.user.Sub = c.sub
                     /\ call[p].ctx.user.TenantID = c.tenant_id
                     /\ call[p].ctx.user.Role = c.role
                     /\ call[p].ctx.user.Permissions = c.permissions
                     /\ call[p].ctx.user.IsSuperAdmin = c.is_super_admin
                     /\ call[p].ctx.user.ExpiresAt = c.exp
                     /\ Verify(a, now).claims = StatelessClaims(c)

W_C13_ElevatedRoleRejected ==
  \E p \in Procs :
    /\ Finished(p, "Gate") /\ call[p].forged
    /\ call[p].req.authorization.token.claims.role = "SUPER_ADMIN"
    /\ call[p].req.authorization.token.alg = "HS256"
    /\ now < call[p].req.authorization.token.claims.exp
    /\ call[p].resp.status = 401

\* a Gate request that presented an issued, unaltered and unexpired token
Authenticated(p) ==
  /\ Finished(p, "Gate") /\ call[p].req.authorization.present /\ ~call[p].forged
  /\ now < call[p].req.authorization.token.claims.exp

\* C14: when the Gate is configured with a non-empty set of required roles, a
\* valid token whose role is not a member is answered Forbidden, and a valid
\* token whose role is a member is allowed through.
C14_RoleMembershipDecides ==
  \A p \in Procs :
    Authenticated(p) /\ call[p].req.required # {}
      => IF call[p].req.authorization.token.claims.role \in call[p].req.required
         THEN call[p].ctx.next /\ call[p].resp.status # 403
         ELSE ~call[p].ctx.next /\ call[p].resp.status = 403

\* C15: a Gate configured with an empty required-role set lets every request
\* with a valid token proceed; Forbidden is answered to no authenticated caller.
C15_EmptyRoleSetAdmitsAll ==
  \A p \in Procs :
    Authenticated(p) /\ call[p].req.required = {}
      => call[p].ctx.next /\ call[p].resp.status # 403

C17_AuditIsBestEffort ==
  \A p \in Procs :
    call[p].pc = "done" /\ call[p].from \in {"L_Audit", "O_Audit", "D_Audit"}
      => /\ Succeeded(p)
         /\ Finished(p, "Login")
              => /\ call[p].resp.status = 200
                 /\ call[p].resp.refreshToken \in DOMAIN refreshTokens
                 /\ refreshTokens[call[p].resp.refreshToken].revokedAt = Nil
         /\ Finished(p, "Logout")
              => /\ call[p].resp.status = 204
                 /\ refreshTokens[call[p].req.refreshToken].revokedAt # Nil
         /\ Finished(p, "DisableUser")
              => /\ call[p].resp.status = 200
                 /\ users[call[p].req.id].status = "INACTIVE"
                 /\ call[p].req.id \in disabled

W_C17_SucceededWithoutAuditRow ==
  \E p \in Procs :
    /\ Finished(p, "DisableUser") /\ Succeeded(p)
    /\ call[p].from = "D_Audit"
    /\ auditLogs = <<>>

C19_RefreshOnlyBeforeExpiry ==
  [][\A p \in Procs :
       call[p].pc = "idle" /\ call'[p].op = "RefreshToken" /\ call'[p].pc = "R_GetUser"
         => now < call'[p].rt.expiresAt]_vars

\* C20: the permission list of an issued token is the set union of the codes
\* of all the user's roles: every such code is in it, no other is, and a code
\* granted through two roles appears exactly once.
C20_PermissionsAreSetUnion ==
  \A p \in Procs :
    (Finished(p, "Login") \/ Finished(p, "RefreshToken")) /\ Succeeded(p)
      => LET perms == call[p].resp.accessToken.claims.permissions
             held == call[p].roles
         IN /\ {perms[i] : i \in 1..Len(perms)}
                 = UNION {{rolePermissions[held[i]][j] : j \in 1..Len(rolePermissions[held[i]])} :
                          i \in 1..Len(held)}
            /\ \A i, j \in 1..Len(perms) : perms[i] = perms[j] => i = j

\* C21: a user without roles is no error case: Login and Refresh for such an
\* ACTIVE user in an ACTIVE tenant succeed when no store call fails, and the
\* token they issue has no permissions, no role and a false super-admin flag
\* (checked under SpecRoles).
C21_NoRolesIsNoError ==
  \A p \in Procs :
    ( /\ \/ Finished(p, "Login") /\ call[p].credCase = "match"
         \/ Finished(p, "RefreshToken") /\ call[p].validAtRead
      /\ ~call[p].fault
      /\ call[p].user.status = "ACTIVE"
      /\ userRoles[call[p].user.id] = <<>>
      /\ GetTenantByID(tenants, call[p].user.tenantID).status = "ACTIVE" )
      => /\ Succeeded(p)
         /\ call[p].resp.status = 200
         /\ call[p].resp.accessToken.claims.sub = call[p].user.id
         /\ call[p].resp.accessToken.claims.permissions = <<>>
         /\ call[p].resp.accessToken.claims.role = ""
         /\ call[p].resp.accessToken.claims.is_super_admin = FALSE

W_C21_LoginWithoutRoles ==
  \E p \in Procs :
    /\ Finished(p, "Login") /\ Succeeded(p)
    /\ userRoles[call[p].user.id] = <<>>
    /\ call[p].resp.accessToken.claims.permissions = <<>>

\* C22: verification fails closed: a correctly signed, unexpired token in which
\* a claim (subject, tenant id, role, permissions, super-admin flag, issued-at,
\* issuer, expiry) is missing or of the wrong type is rejected, by the Gate's
\* verifier and by the stateless validator; no claims with a defaulted field
\* are handed on.
C22_VerificationFailsClosed ==
  \A p \in Procs :
    LET a == call[p].req.authorization.token
    IN Finished(p, "Gate") /\ call[p].req.authorization.present
       /\ a.sig = SignedString(a.alg, a.claims, JwtSignatureKey)
       /\ a.claims.absent # {}
         => /\ call[p].resp.status = 401
            /\ call[p].ctx.user = NoAccessTokenClaims
            /\ Verify(a, now).err # NoErr

\* C23: CreateUser, when no store call fails, stores and returns a user with
\* the requested email and tenant, status ACTIVE and the password as a hash that
\* matches the given password and no other; a following Login with the same
\* email, password and tenant then succeeds (checked under SpecCreate).
C23_CreatedUserCanLogin ==
  \A p \in Procs :
    /\ Finished(p, "CreateUser") /\ ~call[p].fault
         => /\ Succeeded(p)
            /\ call[p].user.id \in DOMAIN users
            /\ users[call[p].user.id] = call[p].user
            /\ call[p].user.email = call[p].req.email
            /\ call[p].user.tenantID = call[p].req.tenantID
            /\ call[p].user.status = "ACTIVE"
            /\ \A pw \in Passwords :
                 CompareHashAndPassword(call[p].user.passwordHash, pw) <=> pw = call[p].req.password
    /\ ( /\ Finished(p, "Login") /\ ~call[p].fault
         /\ call[p].credCase = "match"
         /\ call[p].user.id \in NewUserIDs
         /\ GetTenantByID(tenants, call[p].user.tenantID).status = "ACTIVE" )
         => /\ Succeeded(p)
            /\ call[p].resp.accessToken.claims.sub = call[p].user.id
            /\ call[p].resp.refreshToken \in DOMAIN refreshTokens

W_C23_CreatedUserLoggedIn ==
  \E p \in Procs :
    /\ Finished(p, "Login") /\ Succeeded(p)
    /\ call[p].user.id \in NewUserIDs
    /\ call[p].user.email = "nobody@x.com"

C25_LoginCheckOrder ==
  \A p \in Procs :
    Finished(p, "Login") =>
      /\ call[p].credCase # "match" =>
           call[p].resp.error = ErrInvalidCredentials /\ call[p].from = "idle"
      /\ call[p].resp.error = ErrUserNotActive =>
           /\ call[p].credCase = "match" /\ call[p].from = "idle"
           /\ call[p].user # NoUser /\ call[p].user.status # "ACTIVE"
      /\ call[p].resp.error \in {ErrTenantNotFound, ErrTenantNotActive} =>
           /\ call[p].credCase = "match" /\ call[p].from = "L_GetTenant"
           /\ call[p].user # NoUser /\ call[p].user.status = "ACTIVE"

W_C25_InactiveUserWrongPassword ==
  \E p \in Procs :
    /\ Finished(p, "Login") /\ call[p].credCase = "bad_password"
    /\ call[p].user # NoUser /\ call[p].user.status # "ACTIVE"
    /\ call[p].resp.error = ErrInvalidCredentials

AuditSteps == {"L_Audit", "O_Audit", "D_Audit", "S_Audit", "C_Audit"}

\* C27: an audit entry is written only after the business mutation of its
\* operation: Login reaches CreateAuditLog with its refresh token saved,
\* Logout with the token revoked, DisableUser with the status updated and the
\* user's tokens revoked; and an operation that returns an error has written no
\* audit entry.
C27_AuditFollowsMutation ==
  \A p \in Procs :
    /\ (call[p].op = "Login" /\ call[p].pc = "L_Audit") =>
         /\ call[p].newRefreshToken \in DOMAIN refreshTokens
         /\ refreshTokens[call[p].newRefreshToken].userID = call[p].user.id
    /\ (call[p].op = "Logout" /\ call[p].pc = "O_Audit") =>
         GetRefreshToken(refreshTokens, call[p].req.refreshToken).revokedAt # Nil
    /\ (call[p].op = "DisableUser" /\ call[p].pc = "D_Audit") =>
         /\ users[call[p].req.id].status = "INACTIVE"
         /\ \A t \in DOMAIN refreshTokens :
              refreshTokens[t].userID = call[p].req.id => refreshTokens[t].revokedAt # Nil
    /\ (call[p].pc = "done" /\ Failed(p)) =>
         call[p].from \notin AuditSteps /\ ~call[p].audited

C29_FailedLoginLeavesStore ==
  [][\A p \in Procs :
       (call'[p] # call[p] /\ call'[p].op = "Login") =>
         /\ (call'[p].pc = "done" /\ call'[p].resp.error # NoErr) =>
              /\ store' = store
              /\ call[p].pc \in {"idle", "L_GetTenant", "L_GetRoles", "L_GetPerms", "L_Save"}
         /\ store' # store =>
              /\ call[p].pc \in {"L_Save", "L_Audit"}
              /\ call[p].pc = "L_Save" => call'[p].pc = "L_Audit"
              /\ call[p].pc = "L_Audit" => call'[p].pc = "done" /\ call'[p].resp.error = NoErr]_vars

W_C29_SaveFailedNothingStored ==
  \E p \in Procs :
    /\ Finished(p, "Login") /\ Failed(p) /\ call[p].from = "L_Save"
    /\ minted \notin DOMAIN refreshTokens
    /\ auditLogs = <<>>

\* C30: every access token Login or RefreshToken returns names as tenant_id
\* the tenant its subject belongs to in the users table when the token is
\* returned, and the refresh token saved with it is bound to that tenant: also
\* after UpdateUser has moved the user to another tenant (SpecRoles).
C30_TokenNamesSubjectsTenant ==
  \A p \in Procs :
    ((Finished(p, "Login") \/ Finished(p, "RefreshToken")) /\ Succeeded(p))
      => LET sub == call[p].resp.accessToken.claims.sub
         IN /\ sub \in DOMAIN users
            /\ call[p].resp.accessToken.claims.tenant_id = users[sub].tenantID
            /\ refreshTokens[call[p].resp.refreshToken].tenantID = users[sub].tenantID

====
